---- MODULE Spec2Model ----
(***************************************************************************)
(* Model of the fixture builders of examples/exampleUtils.py               *)
(* (populateAmpBoxes, createDetector, makeFakeAmp, makeAmpInput,           *)
(* makeAssemblyInput, makeDark) and of the test driver                     *)
(* tests/saturationCorrection_1.py.                                        *)
(*                                                                         *)
(* A run of the model is one call chain: either createDetector with        *)
(* arguments drawn from bounded sets, or makeDark (which builds the        *)
(* detector of makeAssemblyInput twice), or the unittest driver.           *)
(***************************************************************************)
EXTENDS Integers, Sequences, FiniteSets, TLC

\* ------------------------------------------------------------------------
\* Bounds of the createDetector arguments explored by the model
\* ------------------------------------------------------------------------
MaxAmpX == 3
MaxAmpY == 2
MaxPixX == 2
MaxPixY == 2
MaxPre == 1
MaxHOscan == 1
MaxVOscan == 1
MaxExt == 1
MaxDarkval == 2
MaxExptime == 2

\* ------------------------------------------------------------------------
\* Program constants
\* ------------------------------------------------------------------------
\* makeAssemblyInput, exampleUtils.py:221-238
AsmNAmpX == 3
AsmNAmpY == 2
AsmNPixX == 512
AsmNPixY == 1024
AsmPre == 4
AsmHOscan == 10
AsmVOscan == 15
AsmExt == 1
\* makeFakeAmp, exampleUtils.py:181: side of the first-pixel marker
MarkSize == 10
\* FakeDataRef.darkexptime, exampleUtils.py:325
DarkExptime == 40
\* populateAmpBoxes, exampleUtils.py:107-108
DefaultGain == 1
Saturation == 100000

\* ------------------------------------------------------------------------
\* afwGeom.BoxI as used by populateAmpBoxes: an integer box is its minimum
\* corner and its dimensions; a box with a zero dimension is the empty box,
\* which shift, flipLR, flipTB leave alone and include ignores.
\* ------------------------------------------------------------------------
EmptyBox == [x0 |-> 0, y0 |-> 0, w |-> 0, h |-> 0]

isEmpty(b) == b.w = 0 \/ b.h = 0

makeBbox(x0, y0, x_extent, y_extent) ==
    IF x_extent = 0 \/ y_extent = 0
    THEN EmptyBox
    ELSE [x0 |-> x0, y0 |-> y0, w |-> x_extent, h |-> y_extent]

shift(b, dx, dy) ==
    IF isEmpty(b) THEN b ELSE [b EXCEPT !.x0 = b.x0 + dx, !.y0 = b.y0 + dy]

flipLR(b, xextent) ==
    IF isEmpty(b) THEN b ELSE [b EXCEPT !.x0 = xextent - (b.x0 + b.w)]

flipTB(b, yextent) ==
    IF isEmpty(b) THEN b ELSE [b EXCEPT !.y0 = yextent - (b.y0 + b.h)]

Min(a, b) == IF a <= b THEN a ELSE b

Max(a, b) == IF a >= b THEN a ELSE b

include(a, b) ==
    IF isEmpty(b) THEN a
    ELSE IF isEmpty(a) THEN b
    ELSE LET x0 == Min(a.x0, b.x0)
             y0 == Min(a.y0, b.y0)
             x1 == Max(a.x0 + a.w, b.x0 + b.w)
             y1 == Max(a.y0 + a.h, b.y0 + b.h)
         IN [x0 |-> x0, y0 |-> y0, w |-> x1 - x0, h |-> y1 - y0]

\* pixel p = <<x, y>> lies in box b
contains(b, p) ==
    /\ b.x0 <= p[1] /\ p[1] < b.x0 + b.w
    /\ b.y0 <= p[2] /\ p[2] < b.y0 + b.h

\* ------------------------------------------------------------------------
\* populateAmpBoxes
\* ------------------------------------------------------------------------
\* faulty variant of ReadoutCorner: the third test repeats the second
ReadoutCornerRepeatedCase(flipx, flipy) ==
    IF flipx /\ flipy THEN "UR"
    ELSE IF flipx /\ ~flipy THEN "LR"
    ELSE IF flipx /\ ~flipy THEN "UL"
    ELSE IF ~flipx /\ ~flipy THEN "LL"
    ELSE "ValueError"

\* lines 95-105: the read corner chosen from the (possibly cleared) flags
ReadoutCorner(flipx, flipy) ==
    IF flipx /\ flipy THEN "UR"
    ELSE IF flipx /\ ~flipy THEN "LR"
    ELSE IF ~flipx /\ flipy THEN "UL"
    ELSE IF ~flipx /\ ~flipy THEN "LL"
    ELSE "ValueError"

\* lines 65-78: the mirror of one sub-region box in the mosaicked mode
Mirror(b, flipx, flipy, xtot, ytot) ==
    LET bx == IF flipx THEN flipLR(b, xtot) ELSE b
    IN IF flipy THEN flipTB(bx, ytot) ELSE bx

\* lines 35-36: science data, unshifted
DataBox(nx, ny, nprescan, nextended) ==
    shift(makeBbox(0, 0, nx, ny), nextended, nprescan)

\* lines 40-41: prescan, unshifted
PreBox(nx, nprescan, nextended) ==
    shift(makeBbox(0, 0, nx, nprescan), nextended, 0)

\* lines 43-44: extended register, unshifted
ExtBox(ny, nprescan, nextended) ==
    shift(makeBbox(0, 0, nextended, ny), 0, nprescan)

\* faulty variant of HOscanBox: the overscan is not moved past the data
HOscanBoxOverData(nx, ny, nprescan, nhoverscan, nextended) ==
    shift(makeBbox(0, 0, nhoverscan, ny), nextended, nprescan)

\* lines 46-47: horizontal overscan, unshifted
HOscanBox(nx, ny, nprescan, nhoverscan, nextended) ==
    shift(makeBbox(0, 0, nhoverscan, ny), nextended + nx, nprescan)

\* lines 49-50: vertical overscan, unshifted
VOscanBox(nx, ny, nprescan, nvoverscan, nextended) ==
    shift(makeBbox(0, 0, nx, nvoverscan), nextended, nprescan + ny)

\* faulty variant of AllBox: the vertical overscan is not included
AllBoxWithoutVOscan(dataBox, preBox, extBox, hOscanBox, vOscanBox) ==
    include(include(include(include(EmptyBox,
        dataBox), preBox), extBox), hOscanBox)

\* lines 38, 52-56: allBox grows to enclose each box included
AllBox(dataBox, preBox, extBox, hOscanBox, vOscanBox) ==
    include(include(include(include(include(EmptyBox,
        dataBox), preBox), extBox), hOscanBox), vOscanBox)

\* faulty variant of TrimmedBBox: the row pitch is the column pitch
TrimmedBBoxSquarePitch(nx, ny, ix, iy) ==
    shift(makeBbox(0, 0, nx, ny), ix * nx, iy * nx)

\* lines 33, 58: the trimmed box of amplifier (ix, iy)
TrimmedBBox(nx, ny, ix, iy) == shift(makeBbox(0, 0, nx, ny), ix * nx, iy * ny)

\* faulty variant of RawXYOffset: the offset is recorded in both modes
RawXYOffsetBothModes(isPerAmp, sx, sy) == <<sx, sy>>

\* lines 85-90: the raw XY offset recorded
RawXYOffset(isPerAmp, sx, sy) == IF isPerAmp THEN <<sx, sy>> ELSE <<0, 0>>

\* lines 62, 65, 71 (72, 78): a flag that was applied as a mirror is cleared
ClearedFlag(isPerAmp, flip) ==
    IF ~isPerAmp THEN (IF flip THEN FALSE ELSE flip) ELSE flip

\* lines 33-120: the record filled for amplifier (ix, iy).  extBox is a
\* local of the function (it is never stored on the record); it is kept in
\* the result, with the flags as passed in, so that the five sub-regions
\* and the arguments of the call can be referred to.
populateAmpBoxes(nx, ny, nprescan, nhoverscan, nvoverscan, nextended, flipx, flipy, ix, iy, isPerAmp) ==
    LET dataBox0 == DataBox(nx, ny, nprescan, nextended)
        preBox0 == PreBox(nx, nprescan, nextended)
        extBox0 == ExtBox(ny, nprescan, nextended)
        hOscanBox0 == HOscanBox(nx, ny, nprescan, nhoverscan, nextended)
        vOscanBox0 == VOscanBox(nx, ny, nprescan, nvoverscan, nextended)
        allBox0 == AllBox(dataBox0, preBox0, extBox0, hOscanBox0, vOscanBox0)
        xtot == allBox0.w
        ytot == allBox0.h
        sx == ix * xtot
        sy == iy * ytot
        Place(b) == IF isPerAmp THEN b
                    ELSE shift(Mirror(b, flipx, flipy, xtot, ytot), sx, sy)
        flipx1 == ClearedFlag(isPerAmp, flipx)
        flipy1 == ClearedFlag(isPerAmp, flipy)
    IN [ name |-> <<ix, iy>>,
         bbox |-> TrimmedBBox(nx, ny, ix, iy),
         readoutCorner |-> ReadoutCorner(flipx1, flipy1),
         gain |-> DefaultGain,
         saturation |-> Saturation,
         hasRawInfo |-> TRUE,
         rawFlipX |-> flipx1,
         rawFlipY |-> flipy1,
         rawBBox |-> IF isPerAmp THEN allBox0 ELSE shift(allBox0, sx, sy),
         rawXYOffset |-> RawXYOffset(isPerAmp, sx, sy),
         rawDataBBox |-> Place(dataBox0),
         rawHorizontalOverscanBBox |-> Place(hOscanBox0),
         rawVerticalOverscanBBox |-> Place(vOscanBox0),
         rawPrescanBBox |-> Place(preBox0),
         extBox |-> Place(extBox0),
         argFlipX |-> flipx,
         argFlipY |-> flipy,
         argIsPerAmp |-> isPerAmp ]

\* ------------------------------------------------------------------------
\* Pixel values.  The images are ImageF (single precision); Python computes
\* in double precision.  A value is the quotient num/den in lowest terms
\* with the precision it was rounded to: "exact" when the quotient is a
\* dyadic rational (representable in both precisions for the magnitudes
\* used here), otherwise the double ("f64") or the single ("f32") nearest
\* to it, which are different numbers.
\* ------------------------------------------------------------------------
RECURSIVE GCD(_, _)
GCD(a, b) == IF b = 0 THEN a ELSE GCD(b, a % b)

RECURSIVE IsPow2(_)
IsPow2(n) == IF n = 1 THEN TRUE ELSE IF n % 2 = 1 THEN FALSE ELSE IsPow2(n \div 2)

\* a / b computed by Python on doubles (a >= 0, b > 0 integers)
Div(a, b) ==
    LET g == GCD(a, b)
        n == a \div g
        d == b \div g
    IN [num |-> n, den |-> d, prec |-> IF IsPow2(d) THEN "exact" ELSE "f64"]

\* the double handed to ImageF.set is stored as a single
ToFloat32(v) == IF v.prec = "exact" THEN v ELSE [v EXCEPT !.prec = "f32"]

\* ------------------------------------------------------------------------
\* Images.  An image is its frame (the box of its pixels) and the sequence
\* of constant fills applied to it, oldest first; the value of a pixel is
\* the value of the last fill whose box holds it.  by names the function
\* that did the fill.
\* ------------------------------------------------------------------------
NoImage == [frame |-> EmptyBox, fills |-> <<>>]

\* afwImage.ImageF(dimensions): a zeroed image
ImageF(w, h) ==
    LET frame == makeBbox(0, 0, w, h)
    IN [frame |-> frame,
        fills |-> <<[box |-> frame, val |-> Div(0, 1), by |-> "ImageF"]>>]

\* box b lies inside box a (the condition for a sub-image of a to exist)
containsBox(a, b) ==
    /\ ~isEmpty(b)
    /\ a.x0 <= b.x0 /\ b.x0 + b.w <= a.x0 + a.w
    /\ a.y0 <= b.y0 /\ b.y0 + b.h <= a.y0 + a.h

\* im.Factory(im, box).set(v), and im.set(v) with box = im.frame
setBox(im, box, v, by) ==
    [im EXCEPT !.fills = Append(@, [box |-> box, val |-> ToFloat32(v), by |-> by])]

RECURSIVE LastFill(_, _, _)
LastFill(fills, p, n) ==
    IF n = 0 THEN 0
    ELSE IF contains(fills[n].box, p) THEN n
    ELSE LastFill(fills, p, n - 1)

\* the fill that decides pixel p of im (p inside im.frame)
DecidingFill(im, p) == im.fills[LastFill(im.fills, p, Len(im.fills))]

\* lines 173-184
markBox(amp) ==
    makeBbox(amp.rawDataBBox.x0, amp.rawDataBBox.y0, MarkSize, MarkSize)

makeFakeAmp(amp) ==
    LET im0 == ImageF(amp.rawBBox.w, amp.rawBBox.h)
        im1 == setBox(im0, im0.frame, Div(amp.gain, 1), "makeFakeAmp")
    IN setBox(im1, markBox(amp), Div(0, 1), "makeFakeAmp")

\* ------------------------------------------------------------------------
\* State
\* ------------------------------------------------------------------------
VARIABLES
    call,        \* the entry point of this run
    args,        \* arguments of the createDetector call in progress
    pc,          \* position in the call chain
    ret,         \* where createDetector returns to
    iy, ix,      \* loop indices of createDetector
    flipy, flipx,\* loop flags of createDetector
    ampCatalog,  \* records added so far
    detector,    \* the detector returned by the last createDetector
    dark,        \* arguments of makeDark
    inputData,   \* makeAmpInput: amplifier images, in catalog order
    k,           \* index of the amplifier in "for amp in detector"
    exposure,    \* image and detector of the exposure being built
    test         \* state of the unittest driver

vars == <<call, args, pc, ret, iy, ix, flipy, flipx, ampCatalog, detector,
          dark, inputData, k, exposure, test>>

NoDetector == [bbox |-> EmptyBox, amps |-> <<>>]

NoExposure == [image |-> NoImage, detector |-> NoDetector]

NoArgs == [nAmpX |-> 0, nAmpY |-> 0, nPixX |-> 0, nPixY |-> 0, pre |-> 0,
           hOscan |-> 0, vOscan |-> 0, ext |-> 0, isPerAmp |-> TRUE]

NoDark == [darkval |-> 0, exptime |-> 0]

NoTest == [dataDir |-> FALSE, isrDir |-> FALSE, attrs |-> {},
           setUpDone |-> FALSE, raised |-> "none", corrected |-> FALSE, written |-> FALSE]

\* lines 221-238, 241, 249: the createDetector arguments of makeAssemblyInput
AssemblyArgs(isPerAmp) ==
    [nAmpX |-> AsmNAmpX, nAmpY |-> AsmNAmpY, nPixX |-> AsmNPixX,
     nPixY |-> AsmNPixY, pre |-> AsmPre, hOscan |-> AsmHOscan,
     vOscan |-> AsmVOscan, ext |-> AsmExt, isPerAmp |-> isPerAmp]

ArgSpace ==
    [nAmpX : 1..MaxAmpX, nAmpY : 1..MaxAmpY, nPixX : 1..MaxPixX,
     nPixY : 1..MaxPixY, pre : 0..MaxPre, hOscan : 0..MaxHOscan,
     vOscan : 0..MaxVOscan, ext : 0..MaxExt, isPerAmp : BOOLEAN]

InitCommon ==
    /\ iy = 0 /\ ix = 0 /\ flipy = TRUE /\ flipx = TRUE
    /\ ampCatalog = <<>> /\ detector = NoDetector
    /\ inputData = <<>> /\ k = 0 /\ exposure = NoExposure

Init ==
    /\ InitCommon
    /\ \/ /\ call = "createDetector"
          /\ args \in ArgSpace
          /\ dark = NoDark /\ test = NoTest
          /\ pc = "cd_begin" /\ ret = "done"
       \/ /\ call = "makeDark"
          /\ args = NoArgs
          /\ dark \in [darkval : 1..MaxDarkval,
                       exptime : (1..MaxExptime) \cup {DarkExptime}]
          /\ test = NoTest
          /\ pc = "mai_begin" /\ ret = "done"
       \/ /\ call = "test"
          /\ args = NoArgs /\ dark = NoDark /\ test = NoTest
          /\ pc = "t_load" /\ ret = "done"

\* ------------------------------------------------------------------------
\* createDetector, lines 135-171
\* ------------------------------------------------------------------------
\* faulty variant of Gain: the row does not count a whole row of amplifiers
GainWithoutRowStride(i, j, nAmpX) == i + j + 1

\* line 146: the gain of amplifier (ix, iy)
Gain(i, j, nAmpX) == i + j * nAmpX + 1

\* lines 135-137
cdBegin ==
    /\ pc = "cd_begin"
    /\ ampCatalog' = <<>>
    /\ flipy' = TRUE
    /\ iy' = 0
    /\ pc' = "cd_row"
    /\ UNCHANGED <<call, args, ret, ix, flipx, detector, dark, inputData, k,
                   exposure, test>>

\* faulty variant of cdRow: flipx is not restarted with the row
cdRowWithoutRestart ==
    /\ pc = "cd_row"
    /\ IF iy < args.nAmpY
       THEN /\ flipy' = ~flipy
            /\ ix' = 0
            /\ pc' = "cd_amp"
            /\ UNCHANGED flipx
       ELSE /\ pc' = "cd_config"
            /\ UNCHANGED <<flipy, flipx, ix>>
    /\ UNCHANGED <<call, args, ret, iy, ampCatalog, detector, dark, inputData,
                   k, exposure, test>>

\* lines 138-140: one turn of the outer loop, or its end
cdRow ==
    /\ pc = "cd_row"
    /\ IF iy < args.nAmpY
       THEN /\ flipy' = ~flipy
            /\ flipx' = TRUE
            /\ ix' = 0
            /\ pc' = "cd_amp"
       ELSE /\ pc' = "cd_config"
            /\ UNCHANGED <<flipy, flipx, ix>>
    /\ UNCHANGED <<call, args, ret, iy, ampCatalog, detector, dark, inputData,
                   k, exposure, test>>

\* lines 141-145: one turn of the inner loop up to populateAmpBoxes, or
\* its end
cdAmp ==
    /\ pc = "cd_amp"
    /\ IF ix < args.nAmpX
       THEN LET record == populateAmpBoxes(args.nPixX, args.nPixY, args.pre,
                              args.hOscan, args.vOscan, args.ext,
                              ~flipx, flipy, ix, iy, args.isPerAmp)
            IN /\ flipx' = ~flipx
               /\ ampCatalog' = Append(ampCatalog, record)
               /\ pc' = IF record.readoutCorner = "ValueError"
                        THEN "ValueError" ELSE "cd_gain"
               /\ UNCHANGED iy
       ELSE /\ iy' = iy + 1
            /\ pc' = "cd_row"
            /\ UNCHANGED <<flipx, ampCatalog>>
    /\ UNCHANGED <<call, args, ret, ix, flipy, detector, dark, inputData, k,
                   exposure, test>>

\* line 146
cdGain ==
    /\ pc = "cd_gain"
    /\ ampCatalog' = [ampCatalog EXCEPT
                         ![Len(ampCatalog)].gain = Gain(ix, iy, args.nAmpX)]
    /\ ix' = ix + 1
    /\ pc' = "cd_amp"
    /\ UNCHANGED <<call, args, ret, iy, flipy, flipx, detector, dark,
                   inputData, k, exposure, test>>

\* lines 151-154: the detector box, corner to corner
DetectorBBox(nAmpX, nAmpY, nPixX, nPixY) ==
    [x0 |-> 0, y0 |-> 0,
     w |-> (nAmpX * nPixX - 1) - 0 + 1, h |-> (nAmpY * nPixY - 1) - 0 + 1]

\* lines 148-171
cdConfig ==
    /\ pc = "cd_config"
    /\ detector' = [bbox |-> DetectorBBox(args.nAmpX, args.nAmpY,
                                          args.nPixX, args.nPixY),
                    amps |-> ampCatalog]
    /\ pc' = ret
    /\ UNCHANGED <<call, args, ret, iy, ix, flipy, flipx, ampCatalog, dark,
                   inputData, k, exposure, test>>

\* ------------------------------------------------------------------------
\* makeAssemblyInput(False, doTrim=True) as called by makeDark
\* ------------------------------------------------------------------------
\* line 241: the per-amplifier detector is built first
maiBegin ==
    /\ pc = "mai_begin"
    /\ args' = AssemblyArgs(TRUE)
    /\ pc' = "cd_begin"
    /\ ret' = "mai_amps"
    /\ UNCHANGED <<call, iy, ix, flipy, flipx, ampCatalog, detector, dark,
                   inputData, k, exposure, test>>

\* lines 198-209 (makeAmpInput): one turn of "for amp in detector", or its
\* end.  The sub-image of makeFakeAmp exists only inside the image.
maiAmps ==
    /\ pc = "mai_amps"
    /\ IF k < Len(detector.amps)
       THEN LET amp == detector.amps[k + 1]
                im == makeFakeAmp(amp)
            IN IF containsBox(im.frame, markBox(amp))
               THEN /\ inputData' = Append(inputData,
                                           [name |-> amp.name, image |-> im])
                    /\ k' = k + 1
                    /\ pc' = "mai_amps"
               ELSE /\ pc' = "LengthError"
                    /\ UNCHANGED <<inputData, k>>
       ELSE /\ pc' = "mai_assemble"
            /\ k' = 0
            /\ UNCHANGED inputData
    /\ UNCHANGED <<call, args, ret, iy, ix, flipy, flipx, ampCatalog,
                   detector, dark, exposure, test>>

intersect(a, b) ==
    LET x0 == Max(a.x0, b.x0)
        y0 == Max(a.y0, b.y0)
        x1 == Min(a.x0 + a.w, b.x0 + b.w)
        y1 == Min(a.y0 + a.h, b.y0 + b.h)
    IN IF isEmpty(a) \/ isEmpty(b) \/ x1 <= x0 \/ y1 <= y0
       THEN EmptyBox
       ELSE [x0 |-> x0, y0 |-> y0, w |-> x1 - x0, h |-> y1 - y0]

\* AssembleCcdTask.assembleCcd with doTrim: the science data of every
\* amplifier image, mirrored as its raw flip flags say, lands in the
\* amplifier's trimmed box of an image as large as the detector box.
AssembledBox(amp, b) ==
    LET d == amp.rawDataBBox
        c == shift(intersect(b, d), -d.x0, -d.y0)
        cx == IF amp.rawFlipX THEN flipLR(c, d.w) ELSE c
        cy == IF amp.rawFlipY THEN flipTB(cx, d.h) ELSE cx
    IN shift(cy, amp.bbox.x0, amp.bbox.y0)

AssembledFills(amp, im) ==
    [j \in 1..Len(im.fills) |->
        [box |-> AssembledBox(amp, im.fills[j].box),
         val |-> im.fills[j].val, by |-> "assembleCcd"]]

RECURSIVE AssembleInto(_, _, _, _)
AssembleInto(im, det, data, n) ==
    IF n = 0 THEN im
    ELSE LET done == AssembleInto(im, det, data, n - 1)
         IN [done EXCEPT !.fills = @ \o AssembledFills(det.amps[n], data[n].image)]

assembleCcd(data, det) ==
    [image |-> AssembleInto(ImageF(det.bbox.w, det.bbox.h), det, data,
                            Len(data)),
     detector |-> det]

\* lines 243-249: assemble, then build the detector of the mosaic
maiAssemble ==
    /\ pc = "mai_assemble"
    /\ exposure' = assembleCcd(inputData, detector)
    /\ args' = AssemblyArgs(FALSE)
    /\ pc' = "cd_begin"
    /\ ret' = "mai_set"
    /\ UNCHANGED <<call, iy, ix, flipy, flipx, ampCatalog, detector, dark,
                   inputData, k, test>>

\* lines 250-251, 288-292
maiSet ==
    /\ pc = "mai_set"
    /\ exposure' = [exposure EXCEPT !.detector = detector]
    /\ k' = 0
    /\ pc' = "md_amps"
    /\ UNCHANGED <<call, args, ret, iy, ix, flipy, flipx, ampCatalog,
                   detector, dark, inputData, test>>

\* ------------------------------------------------------------------------
\* makeDark, lines 293-296
\* ------------------------------------------------------------------------
\* faulty variant of DarkValue: the gain is not divided out
DarkValueWithoutGain(darkval, exptime, gain) == Div(darkval * exptime, 1)

\* line 295: the value handed to subim.set
DarkValue(darkval, exptime, gain) == Div(darkval * exptime, gain)

\* line 294: the sub-image filled for an amplifier
DarkBox(amp) == amp.bbox

mdAmps ==
    /\ pc = "md_amps"
    /\ IF k < Len(exposure.detector.amps)
       THEN LET amp == exposure.detector.amps[k + 1]
            IN IF containsBox(exposure.image.frame, DarkBox(amp))
               THEN /\ exposure' = [exposure EXCEPT !.image =
                           setBox(@, DarkBox(amp),
                                  DarkValue(dark.darkval, dark.exptime,
                                            amp.gain), "makeDark")]
                    /\ k' = k + 1
                    /\ pc' = "md_amps"
               ELSE /\ pc' = "LengthError"
                    /\ UNCHANGED <<exposure, k>>
       ELSE /\ pc' = "done"
            /\ UNCHANGED <<exposure, k>>
    /\ UNCHANGED <<call, args, ret, iy, ix, flipy, flipx, ampCatalog,
                   detector, dark, inputData, test>>

\* ------------------------------------------------------------------------
\* tests/saturationCorrection_1.py
\* ------------------------------------------------------------------------
\* lines 34-40: the module needs both products set up
tLoad ==
    /\ pc = "t_load"
    /\ \E dataDir \in BOOLEAN, isrDir \in BOOLEAN :
          /\ test' = [test EXCEPT !.dataDir = dataDir, !.isrDir = isrDir,
                         !.raised = IF dataDir /\ isrDir THEN "none"
                                    ELSE "RuntimeError"]
          /\ pc' = IF dataDir /\ isrDir THEN "t_setUp" ELSE "done"
    /\ UNCHANGED <<call, args, ret, iy, ix, flipy, flipx, ampCatalog,
                   detector, dark, inputData, k, exposure>>

\* lines 58-61: readFits or createPolicy may fail; then unittest runs
\* neither the test nor tearDown
tSetUp ==
    /\ pc = "t_setUp"
    /\ \E readOk \in BOOLEAN, policyOk \in BOOLEAN :
          /\ test' = [test EXCEPT
                 !.attrs = IF readOk /\ policyOk
                           THEN {"chunkExposure", "isrPolicy"}
                           ELSE {"chunkExposure"},
                 !.setUpDone = readOk /\ policyOk,
                 !.raised = IF readOk /\ policyOk THEN "none" ELSE "setUp"]
          /\ pc' = IF readOk /\ policyOk THEN "t_test" ELSE "done"
    /\ UNCHANGED <<call, args, ret, iy, ix, flipy, flipx, ampCatalog,
                   detector, dark, inputData, k, exposure>>

\* line 69: the attributes read to build the argument list of the call
CallArguments == {"chunkExposure", "isrPolicy", "datasetPolicy"}

\* lines 67-71: the arguments are evaluated, then the routine is called,
\* then the exposure is written
testSaturationCorrection ==
    /\ pc = "t_test"
    /\ IF CallArguments \subseteq test.attrs
       THEN test' = [test EXCEPT !.corrected = TRUE, !.written = TRUE]
       ELSE test' = [test EXCEPT !.raised = "AttributeError"]
    /\ pc' = "t_tearDown"
    /\ UNCHANGED <<call, args, ret, iy, ix, flipy, flipx, ampCatalog,
                   detector, dark, inputData, k, exposure>>

\* lines 63-65
tearDown ==
    /\ pc = "t_tearDown"
    /\ test' = [test EXCEPT !.attrs = @ \ {"chunkExposure", "isrPolicy"}]
    /\ pc' = "done"
    /\ UNCHANGED <<call, args, ret, iy, ix, flipy, flipx, ampCatalog,
                   detector, dark, inputData, k, exposure>>

Next ==
    \/ cdBegin \/ cdRow \/ cdAmp \/ cdGain \/ cdConfig
    \/ maiBegin \/ maiAmps \/ maiAssemble \/ maiSet \/ mdAmps
    \/ tLoad \/ tSetUp \/ testSaturationCorrection \/ tearDown

Spec == Init /\ [][Next]_vars

TypeOK ==
    /\ call \in {"createDetector", "makeDark", "test"}
    /\ pc \in {"cd_begin", "cd_row", "cd_amp", "cd_gain", "cd_config",
               "mai_begin", "mai_amps", "mai_assemble", "mai_set", "md_amps",
               "t_load", "t_setUp", "t_test", "t_tearDown", "done",
               "ValueError", "LengthError"}
    /\ flipx \in BOOLEAN /\ flipy \in BOOLEAN
    /\ Len(ampCatalog) <= args.nAmpX * args.nAmpY

\* ------------------------------------------------------------------------
\* Properties
\* ------------------------------------------------------------------------
\* Two pixels that lie between the same consecutive box edges in x and in
\* y lie in exactly the same boxes; so a statement about which of a set of
\* boxes hold a pixel is true of every pixel iff it is true of the pixels
\* whose coordinates are box edges.  ProbePixels is that set of pixels: the
\* first pixel of every cell the edges cut the plane into, and the first
\* pixel beyond every box.
EdgesX(boxes) == UNION {{b.x0, b.x0 + b.w} : b \in {c \in boxes : ~isEmpty(c)}}

EdgesY(boxes) == UNION {{b.y0, b.y0 + b.h} : b \in {c \in boxes : ~isEmpty(c)}}

ProbePixels(boxes) == EdgesX(boxes) \X EdgesY(boxes)

SubRegions(amp) ==
    <<amp.rawDataBBox, amp.rawPrescanBBox, amp.extBox,
      amp.rawHorizontalOverscanBBox, amp.rawVerticalOverscanBBox>>

Range(f) == {f[i] : i \in DOMAIN f}

Records == Range(ampCatalog)

\* C1: the five sub-region rectangles of every amplifier record are
\* pairwise disjoint: no pixel lies in two of them, in both modes and for
\* every flip.
C1_SubRegionsDisjoint ==
    \A amp \in Records :
        LET r == SubRegions(amp)
        IN \A p \in ProbePixels(Range(r) \cup {amp.rawBBox}) :
              \A i \in 1..5, j \in 1..5 :
                  i < j => ~(contains(r[i], p) /\ contains(r[j], p))

\* a mirrored, translated amplifier of the mosaicked mode with all five
\* sub-regions present
C1_Witness ==
    \E amp \in Records :
        /\ ~amp.argIsPerAmp /\ amp.argFlipX /\ amp.argFlipY
        /\ amp.name[1] > 0 /\ amp.name[2] > 0
        /\ \A i \in 1..5 : ~isEmpty(SubRegions(amp)[i])

Covered(amp, p) == \E i \in 1..5 : contains(SubRegions(amp)[i], p)

\* C2 as stated: the union of the five sub-regions is exactly the raw
\* bounding box.
C2_UnionIsRawBBox ==
    \A amp \in Records :
        \A p \in ProbePixels(Range(SubRegions(amp)) \cup {amp.rawBBox}) :
            contains(amp.rawBBox, p) <=> Covered(amp, p)

InDataColumn(amp, p) ==
    amp.rawDataBBox.x0 <= p[1] /\ p[1] < amp.rawDataBBox.x0 + amp.rawDataBBox.w

InDataRow(amp, p) ==
    amp.rawDataBBox.y0 <= p[2] /\ p[2] < amp.rawDataBBox.y0 + amp.rawDataBBox.h

\* C2 amended: every sub-region lies inside the raw bounding box, the raw
\* bounding box is the smallest box enclosing the five (each of its four
\* sides holds a pixel of a sub-region), and the pixels of the raw bounding
\* box that no sub-region holds are exactly those that are neither in a
\* column nor in a row of the science data (the four corner blocks).
C2_RawBBoxEncloses ==
    \A amp \in Records :
        LET raw == amp.rawBBox
            P == ProbePixels(Range(SubRegions(amp)) \cup {raw})
            Present == {b \in Range(SubRegions(amp)) : ~isEmpty(b)}
        IN /\ \A p \in P : Covered(amp, p) => contains(raw, p)
           /\ \A p \in P : contains(raw, p) =>
                  (Covered(amp, p) <=> (InDataColumn(amp, p) \/ InDataRow(amp, p)))
           /\ \E b \in Present : b.x0 = raw.x0
           /\ \E b \in Present : b.y0 = raw.y0
           /\ \E b \in Present : b.x0 + b.w = raw.x0 + raw.w
           /\ \E b \in Present : b.y0 + b.h = raw.y0 + raw.h

\* an amplifier whose raw bounding box has an uncovered corner pixel
C2_Witness ==
    \E amp \in Records :
        /\ ~amp.argIsPerAmp /\ amp.argFlipX
        /\ \E p \in ProbePixels(Range(SubRegions(amp)) \cup {amp.rawBBox}) :
              contains(amp.rawBBox, p) /\ ~Covered(amp, p)

\* the corner the claim assigns to a pair of flags
ClaimedCorner(fx, fy) ==
    CASE fx /\ fy -> "UR"
      [] fx /\ ~fy -> "LR"
      [] ~fx /\ fy -> "UL"
      [] ~fx /\ ~fy -> "LL"

\* C3 as stated: in both modes the read corner recorded is the fixed
\* bijection of the flags passed in: (T,T) UR, (T,F) LR, (F,T) UL, (F,F) LL.
C3_CornerFromPassedFlags ==
    \A amp \in Records :
        amp.readoutCorner = ClaimedCorner(amp.argFlipX, amp.argFlipY)

\* createDetector has returned a detector built from args
Built ==
    /\ detector # NoDetector
    /\ pc \in {"done", "mai_amps", "mai_assemble", "mai_set", "md_amps"}

AmpBoxes(det) == {det.amps[n].bbox : n \in 1..Len(det.amps)}

\* C4: the trimmed amplifier boxes of a detector are pairwise disjoint and
\* their union is exactly the detector bounding box
\* [0, nAmpX*nPixX-1] x [0, nAmpY*nPixY-1], whatever the prescan, overscan
\* and extended widths; for the grid of makeAssemblyInput that box is
\* 1536 x 2048 pixels.
C4_TrimmedBoxesTileDetector ==
    Built =>
        LET amps == detector.amps
            P == ProbePixels(AmpBoxes(detector) \cup {detector.bbox})
        IN /\ \A p \in P :
                 \A m \in 1..Len(amps), n \in 1..Len(amps) :
                     m < n => ~(contains(amps[m].bbox, p) /\ contains(amps[n].bbox, p))
           /\ \A p \in P :
                 contains(detector.bbox, p) <=>
                     \E n \in 1..Len(amps) : contains(amps[n].bbox, p)
           /\ \A p \in P :
                 contains(detector.bbox, p) <=>
                     /\ 0 <= p[1] /\ p[1] <= args.nAmpX * args.nPixX - 1
                     /\ 0 <= p[2] /\ p[2] <= args.nAmpY * args.nPixY - 1
           /\ (call = "makeDark") =>
                 /\ detector.bbox.w = 1536 /\ detector.bbox.h = 2048
                 /\ \A n \in 1..Len(amps) :
                       amps[n].bbox.w = 512 /\ amps[n].bbox.h = 1024

\* the 3x2 detector of makeAssemblyInput, built
C4_Witness ==
    /\ Built /\ call = "makeDark" /\ pc = "mai_set"
    /\ Len(detector.amps) = 6
    /\ detector.amps[6].bbox = [x0 |-> 1024, y0 |-> 1024, w |-> 512, h |-> 1024]

\* C5: after createDetector the amplifier named A:ix,iy has gain
\* ix + iy*nAmpX + 1, the default gain being overwritten; the catalog holds
\* nAmpX*nAmpY amplifiers whose gains are 1..nAmpX*nAmpY in row-major order.
C5_GainByGridPosition ==
    Built =>
        LET amps == detector.amps
        IN /\ Len(amps) = args.nAmpX * args.nAmpY
           /\ \A i \in 0..(args.nAmpX - 1), j \in 0..(args.nAmpY - 1) :
                 \E n \in 1..Len(amps) :
                     /\ amps[n].name = <<i, j>>
                     /\ amps[n].gain = i + j * args.nAmpX + 1
                     /\ n = i + j * args.nAmpX + 1
           /\ \A n \in 1..Len(amps) : amps[n].gain = n

\* a finished detector whose last amplifier has a gain that is not the
\* default
C5_Witness ==
    /\ Built /\ call = "createDetector"
    /\ args.nAmpX = 3 /\ args.nAmpY = 2
    /\ detector.amps[5].name = <<1, 1>> /\ detector.amps[5].gain = 5

\* makeDark has returned its exposure
DarkReturned == call = "makeDark" /\ pc = "done"

ImageBoxes(im) == {im.fills[n].box : n \in 1..Len(im.fills)} \cup {im.frame}

\* C6 as stated: every pixel of the dark image equals the double
\* darkval * exptime / gain of the amplifier whose trimmed box holds it.
C6_DarkPixelIsQuotient ==
    DarkReturned =>
        LET im == exposure.image
            amps == exposure.detector.amps
        IN \A p \in ProbePixels(ImageBoxes(im)) :
              contains(im.frame, p) =>
                  \E n \in 1..Len(amps) :
                      /\ contains(amps[n].bbox, p)
                      /\ DecidingFill(im, p).val =
                             Div(dark.darkval * dark.exptime, amps[n].gain)

\* C6 amended: every pixel of the dark image lies in the trimmed box of
\* exactly one amplifier, was last written by makeDark (none keeps the gain
\* fill or the zero marker of makeFakeAmp), and holds
\* darkval * exptime / gain of that amplifier rounded to the single
\* precision of the image.
C6_DarkPixelIsSingleOfQuotient ==
    DarkReturned =>
        LET im == exposure.image
            amps == exposure.detector.amps
        IN \A p \in ProbePixels(ImageBoxes(im)) :
              contains(im.frame, p) =>
                  /\ Cardinality({n \in 1..Len(amps) : contains(amps[n].bbox, p)}) = 1
                  /\ \E n \in 1..Len(amps) :
                        /\ contains(amps[n].bbox, p)
                        /\ DecidingFill(im, p).by = "makeDark"
                        /\ DecidingFill(im, p).val =
                               ToFloat32(Div(dark.darkval * dark.exptime,
                                             amps[n].gain))

\* the dark of FakeDataRef (2 e-/s, 40 s) returned: the pixel where the
\* marker of the mirrored amplifier A:1,0 was assembled holds 80/2, and a
\* pixel of A:2,0 (gain 3) holds the single nearest to 80/3
C6_Witness ==
    /\ DarkReturned /\ dark.darkval = 2 /\ dark.exptime = DarkExptime
    /\ \E n \in 1..Len(exposure.image.fills) :
          /\ exposure.image.fills[n].by = "assembleCcd"
          /\ exposure.image.fills[n].val = Div(0, 1)
          /\ exposure.image.fills[n].box =
                 [x0 |-> 1014, y0 |-> 0, w |-> 10, h |-> 10]
    /\ DecidingFill(exposure.image, <<1014, 0>>).val = Div(40, 1)
    /\ DecidingFill(exposure.image, <<1024, 0>>).val =
           [num |-> 80, den |-> 3, prec |-> "f32"]

\* C7 as stated: once setUp has loaded the exposure and the policy, the
\* test calls the correction routine and then writes the exposure; the
\* write is always reached.
C7_WriteReached ==
    (call = "test" /\ pc = "done" /\ test.setUpDone) =>
        (test.corrected /\ test.written)

\* the five sub-regions laid out from the arguments, moved by (dx, dy)
C8_RawBoxesAt(amp, dx, dy) ==
    LET nx == args.nPixX
        ny == args.nPixY
    IN /\ amp.rawDataBBox = makeBbox(args.ext + dx, args.pre + dy, nx, ny)
       /\ amp.rawPrescanBBox = makeBbox(args.ext + dx, dy, nx, args.pre)
       /\ amp.extBox = makeBbox(dx, args.pre + dy, args.ext, ny)
       /\ amp.rawHorizontalOverscanBBox =
              makeBbox(args.ext + nx + dx, args.pre + dy, args.hOscan, ny)
       /\ amp.rawVerticalOverscanBBox =
              makeBbox(args.ext + dx, args.pre + ny + dy, nx, args.vOscan)

C9_FlagsAlternate ==
    /\ \A amp \in Records :
          /\ amp.argFlipX = (amp.name[1] % 2 = 1)
          /\ amp.argFlipY = (amp.name[2] % 2 = 1)
          /\ amp.name[1] = 0 => ~amp.argFlipX
    /\ \A a \in Records, b \in Records :
          /\ (a.name[2] = b.name[2] /\ b.name[1] = a.name[1] + 1)
                => a.argFlipX # b.argFlipX
          /\ (a.name[1] = b.name[1] /\ b.name[2] = a.name[2] + 1)
                => a.argFlipY # b.argFlipY
    /\ pc = "cd_gain" => (flipx = (ix % 2 = 1) /\ flipy = (iy % 2 = 1))

\* the second row of a grid with an odd number of columns has been begun
C9_Witness ==
    /\ args.nAmpX = 3 /\ pc = "cd_gain" /\ iy = 1 /\ ix = 0
    /\ \E a \in Records : a.name = <<2, 0>> /\ a.argFlipX = FALSE
    /\ \E b \in Records : b.name = <<0, 1>> /\ ~b.argFlipX /\ b.argFlipY

Corners == {"UR", "LR", "UL", "LL"}

\* C10: no call of populateAmpBoxes made by createDetector reaches the
\* ValueError branch, in either mode and for every grid size; every record
\* gets one of the four corners, and createDetector completes with all
\* nAmpX*nAmpY records populated.
C10_NoValueError ==
    /\ pc # "ValueError"
    /\ \A amp \in Records : amp.readoutCorner \in Corners /\ amp.hasRawInfo
    /\ pc = "cd_config" =>
          /\ Len(ampCatalog) = args.nAmpX * args.nAmpY
          /\ {ampCatalog[n].name : n \in 1..Len(ampCatalog)} =
                 (0..(args.nAmpX - 1)) \X (0..(args.nAmpY - 1))

\* a per-amplifier catalog complete with all four flag combinations
C10_Witness ==
    /\ pc = "cd_config" /\ args.isPerAmp
    /\ Len(ampCatalog) = 6
    /\ {ampCatalog[n].readoutCorner : n \in 1..Len(ampCatalog)} = Corners

====
